---------------------------- MODULE Spec2Model ----------------------------
(***************************************************************************)
(* The PSSM binding model of cgb (src/cgb/PSSM_model.py): the weighted     *)
(* combination of position-weight matrices, the log-odds scoring matrix,   *)
(* the sliding-window scan over both strands, the information content and  *)
(* the patser threshold.                                                   *)
(*                                                                         *)
(* Numbers.  Python floats are modelled by exact rationals <<n, d>> in     *)
(* lowest terms (d > 0); rounding is not modelled.  A score is a record    *)
(* [k, n, d]: k = "fin" is the rational n/d, k = "-inf" is float('-inf'),  *)
(* k = "log2" is the real number log2(n/d) for an n/d that is not a power  *)
(* of two.  math.log(x, 2) is exact on the inputs drawn here: log_odds is  *)
(* only taken of models whose odds p/b are powers of two (LogExact).       *)
(***************************************************************************)
EXTENDS Integers, Sequences, FiniteSets, TLC

VARIABLES pwms, weights, background, _pwm, cache, pc, call, result,
          threads, runs

vars == <<pwms, weights, background, _pwm, cache, pc, call, result,
          threads, runs>>

---------------------------------------------------------------------------
(* Bounds of the model. *)

\* Weights are drawn from 0..MaxWeight.
MaxWeight == 2

\* Query sequences have 0..MaxSeqLen letters.
MaxSeqLen == 3

\* The number of threads that share one model, and the number of field
\* accesses each of them makes.
NumThreads == 2
MaxAccesses == 1

---------------------------------------------------------------------------
(* Exact rational arithmetic standing in for Python floats. *)

Abs(a) == IF a < 0 THEN -a ELSE a

RECURSIVE GCD(_, _)
GCD(a, b) == IF b = 0 THEN a ELSE GCD(b, a % b)

Rat(n, d) ==
    LET g == GCD(Abs(n), Abs(d))
        s == IF d < 0 THEN -1 ELSE 1
    IN  <<(s * n) \div g, (s * d) \div g>>

Zero == <<0, 1>>
One == <<1, 1>>

RAdd(p, q) == Rat(p[1] * q[2] + q[1] * p[2], p[2] * q[2])
RSub(p, q) == Rat(p[1] * q[2] - q[1] * p[2], p[2] * q[2])
RMul(p, q) == Rat(p[1] * q[1], p[2] * q[2])
RDiv(p, q) == Rat(p[1] * q[2], p[2] * q[1])
RLt(p, q) == p[1] * q[2] < q[1] * p[2]
RLe(p, q) == p[1] * q[2] <= q[1] * p[2]

\* sum(f[x] for x in the sequence xs), left to right as Python's sum does.
RECURSIVE RSum(_)
RSum(xs) == IF xs = <<>> THEN Zero ELSE RAdd(xs[1], RSum(Tail(xs)))

RECURSIVE Pow(_, _)
Pow(b, e) == IF e = 0 THEN 1 ELSE b * Pow(b, e - 1)

\* The sequence enumerating a finite set (in some fixed order).
RECURSIVE SetToSeq(_)
SetToSeq(S) ==
    IF S = {} THEN <<>>
    ELSE LET x == CHOOSE y \in S : TRUE IN <<x>> \o SetToSeq(S \ {x})

Range(f) == {f[i] : i \in DOMAIN f}

---------------------------------------------------------------------------
(* Outcomes of a call: a returned value or a raised exception. *)

Return(v) == [kind |-> "return", exc |-> "", value |-> <<v>>]
Raise(e) == [kind |-> "raise", exc |-> e, value |-> <<>>]
NoResult == [kind |-> "none", exc |-> "", value |-> <<>>]

---------------------------------------------------------------------------
(* Alphabets and position-weight matrices (Bio.motifs.matrix).  A matrix   *)
(* is [alphabet, length, vals] with vals[letter][i] the entry of letter    *)
(* at position i (1-based here, 0-based in Python).                        *)

unambiguous_dna == <<"A", "C", "G", "T">>
unambiguous_rna == <<"A", "C", "G", "U">>

\* A source matrix of a site collection: rows of eighths, each summing to 1.
SourcePwm(alphabet, rows) ==
    [alphabet |-> alphabet,
     length |-> Len(rows),
     vals |-> [let \in Range(alphabet) |->
                 [i \in 1..Len(rows) |->
                    Rat(rows[i][CHOOSE j \in DOMAIN alphabet :
                                    alphabet[j] = let], 8)]]]

\* The source matrices the constructor is given (c.pwm of each collection).
SourcePwms ==
    { SourcePwm(unambiguous_dna, rows) : rows \in
        { << <<8, 0, 0, 0>> >>,
          << <<4, 2, 1, 1>> >>,
          << <<2, 2, 2, 2>> >>,
          << <<5, 2, 1, 0>> >>,
          << <<2, 2, 1, 3>> >>,
          << <<8, 0, 0, 0>>, <<0, 0, 0, 8>> >>,
          << <<4, 2, 1, 1>>, <<1, 1, 2, 4>> >>,
          << <<4, 2, 1, 1>>, <<2, 2, 2, 2>> >>,
          << <<5, 2, 1, 0>>, <<4, 2, 1, 1>> >>,
          << <<2, 2, 1, 3>>, <<4, 2, 1, 1>> >> } }
    \cup { SourcePwm(unambiguous_rna, << <<4, 2, 1, 1>> >>) }

\* Background distributions handed to the constructor; the first is the
\* default of __init__.
Backgrounds ==
    { [let \in Range(unambiguous_dna) |-> <<1, 4>>],
      [let \in Range(unambiguous_dna) |->
          CASE let = "A" -> <<1, 2>>
            [] let = "C" -> <<1, 4>>
            [] OTHER -> <<1, 8>>] }

\* PositionWeightMatrix(alphabet, counts): Biopython's constructor divides
\* every position by its total over the alphabet's letters.
PositionWeightMatrix(alphabet, length, counts) ==
    LET total(i) == RSum([j \in DOMAIN alphabet |-> counts[alphabet[j]][i]])
    IN  IF \E i \in 1..length : total(i) = Zero
        THEN Raise("ZeroDivisionError")
        ELSE Return([alphabet |-> alphabet,
                     length |-> length,
                     vals |-> [let \in Range(alphabet) |->
                                 [i \in 1..length |->
                                    RDiv(counts[let][i], total(i))]]])

---------------------------------------------------------------------------
(* PSSMModel._combine_pwms *)

\* The faulty variant that lets longer matrices through.
same_length_le(ps) == \A k \in DOMAIN ps : ps[1].length <= ps[k].length

\* assert all(len == pwm.length for pwm in pwms)
same_length(ps) == \A k \in DOMAIN ps : ps[1].length = ps[k].length

\* assert all(alphabet == pwm.alphabet for pwm in pwms)
same_alphabet(ps) == \A k \in DOMAIN ps : ps[1].alphabet = ps[k].alphabet

\* The faulty variant that hands the normalised weights out in reverse order.
normalized_weights_swapped(ws) ==
    LET total == RSum([k \in DOMAIN ws |-> <<ws[k], 1>>])
    IN  [k \in DOMAIN ws |-> RDiv(<<ws[Len(ws) + 1 - k], 1>>, total)]

\* weights = [float(weight)/sum(weights) for weight in weights]
normalized_weights(ws) ==
    LET total == RSum([k \in DOMAIN ws |-> <<ws[k], 1>>])
    IN  [k \in DOMAIN ws |-> RDiv(<<ws[k], 1>>, total)]

\* pwm_vals = {let: [sum(pwm[let][i]*w for pwm, w in zip(pwms, weights))
\*                   for i in xrange(len)] for let in alphabet.letters}
pwm_vals(ps, ws) ==
    [let \in Range(ps[1].alphabet) |->
       [i \in 1..ps[1].length |->
          RSum([k \in 1..(IF Len(ps) < Len(ws) THEN Len(ps) ELSE Len(ws)) |->
                  RMul(ps[k].vals[let][i], ws[k])])]]

\* The faulty variant: the raw weights are used and the frequencies are returned as
\* they are, without the normalising PositionWeightMatrix constructor.
_combine_pwms_raw(ps, ws) ==
    IF ~same_length(ps) \/ ~same_alphabet(ps)
    THEN Raise("AssertionError")
    ELSE Return([alphabet |-> ps[1].alphabet,
                 length |-> ps[1].length,
                 vals |-> pwm_vals(ps, [k \in DOMAIN ws |-> <<ws[k], 1>>])])

\* The faulty variant that falls back to equal weights when the weights
\* sum to zero.
_combine_pwms_equal_on_zero(ps, ws) ==
    IF ~same_length(ps) THEN Raise("AssertionError")
    ELSE IF ~same_alphabet(ps) THEN Raise("AssertionError")
    ELSE IF RSum([k \in DOMAIN ws |-> <<ws[k], 1>>]) = Zero
         THEN PositionWeightMatrix(ps[1].alphabet, ps[1].length,
                pwm_vals(ps, [k \in DOMAIN ws |-> <<1, Len(ws)>>]))
    ELSE PositionWeightMatrix(ps[1].alphabet, ps[1].length,
                              pwm_vals(ps, normalized_weights(ws)))

\* _combine_pwms(pwms, weights): the two assertions, the division of the
\* weights by their sum (ZeroDivisionError when it is zero), the weighted
\* sums and the PositionWeightMatrix built from them.
_combine_pwms(ps, ws) ==
    IF ~same_length(ps) THEN Raise("AssertionError")
    ELSE IF ~same_alphabet(ps) THEN Raise("AssertionError")
    ELSE IF RSum([k \in DOMAIN ws |-> <<ws[k], 1>>]) = Zero
         THEN Raise("ZeroDivisionError")
    ELSE PositionWeightMatrix(ps[1].alphabet, ps[1].length,
                              pwm_vals(ps, normalized_weights(ws)))

---------------------------------------------------------------------------
(* Scores: floats that are rationals, float('-inf'), or log2 of a rational. *)

Fin(q) == [k |-> "fin", n |-> q[1], d |-> q[2]]
NegInf == [k |-> "-inf", n |-> 0, d |-> 1]

\* The powers of two that fit an integer here.
Pow2Table == [e \in 0..30 |-> Pow(2, e)]

IsPow2(n) == n \in Range(Pow2Table)
ILog2(n) == CHOOSE e \in DOMAIN Pow2Table : n = Pow2Table[e]

\* The rationals q > 0 whose math.log(q, 2) is an integer.
Pow2Rats == {<<Pow2Table[e], 1>> : e \in DOMAIN Pow2Table}
              \cup {<<1, Pow2Table[e]>> : e \in DOMAIN Pow2Table}

\* misc.log2(x) = math.log(x, 2); math.log raises ValueError ("math domain
\* error") for x = 0.
log2(x) ==
    IF x[1] <= 0 THEN Raise("ValueError")
    ELSE IF x[2] = 1 /\ IsPow2(x[1]) THEN Return(Fin(<<ILog2(x[1]), 1>>))
    ELSE IF x[1] = 1 /\ IsPow2(x[2]) THEN Return(Fin(<<-ILog2(x[2]), 1>>))
    ELSE Return([k |-> "log2", n |-> x[1], d |-> x[2]])

\* 2**score for an integer score or float('-inf') (2**-inf = 0.0).
Pow2(s) ==
    IF s.k = "-inf" THEN Zero
    ELSE IF s.n >= 0 THEN <<Pow(2, s.n), 1>> ELSE <<1, Pow(2, -s.n)>>

\* score + entry, as float addition with -inf absorbing.
ScoreAdd(x, y) ==
    IF x.k = "-inf" \/ y.k = "-inf" THEN NegInf
    ELSE Fin(RAdd(<<x.n, x.d>>, <<y.n, y.d>>))

\* Float comparison x < y on rationals and -inf.
ScoreLt(x, y) ==
    IF y.k = "-inf" THEN FALSE
    ELSE IF x.k = "-inf" THEN TRUE
    ELSE RLt(<<x.n, x.d>>, <<y.n, y.d>>)

---------------------------------------------------------------------------
(* Bio.motifs.matrix as PSSMModel uses it. *)

\* The background of a model normalised to sum 1, as log_odds does.
normalize(bg, letters) ==
    LET total == RSum([j \in DOMAIN letters |-> bg[letters[j]]])
    IN  [let \in Range(letters) |-> RDiv(bg[let], total)]

\* The models whose log-odds are exact here: every non-zero odds p/b is a
\* power of two.
LogExact(pwm, bg) ==
    /\ pwm.alphabet = unambiguous_dna
    /\ {RDiv(pwm.vals[let][i], normalize(bg, pwm.alphabet)[let]) :
           let \in Range(pwm.alphabet), i \in 1..pwm.length}
         \subseteq Pow2Rats \cup {Zero}

\* pwm.log_odds(background): log2(p / b) per cell, -inf for p = 0 (the
\* backgrounds drawn here are positive).
log_odds(pwm, bg) ==
    LET b == normalize(bg, pwm.alphabet)
    IN  [alphabet |-> pwm.alphabet,
         length |-> pwm.length,
         vals |-> [let \in Range(pwm.alphabet) |->
                     [i \in 1..pwm.length |->
                        IF pwm.vals[let][i] = Zero THEN NegInf
                        ELSE log2(RDiv(pwm.vals[let][i], b[let])).value[1]]]]

complement(let) ==
    CASE let = "A" -> "T" [] let = "T" -> "A"
      [] let = "C" -> "G" [] let = "G" -> "C"

\* pssm.reverse_complement(): values["A"] = self["T"][::-1], and so on.
reverse_complement(m) ==
    [alphabet |-> m.alphabet,
     length |-> m.length,
     vals |-> [let \in Range(m.alphabet) |->
                 [i \in 1..m.length |->
                    m.vals[complement(let)][m.length + 1 - i]]]]

\* The score of the window of seq starting at offset i (0-based): the sum
\* over the positions of the matrix entry of the letter there.
RECURSIVE window_score(_, _, _, _)
window_score(m, seq, i, position) ==
    IF position > m.length THEN Fin(Zero)
    ELSE ScoreAdd(m.vals[seq[i + position]][position],
                  window_score(m, seq, i, position + 1))

\* pssm.calculate(seq), the pure-Python loop: one score per offset in
\* range(n - m + 1), and the bare score instead of the list when there is
\* exactly one.
calculate(m, seq) ==
    LET n == Len(seq)
        scores == [i \in 1..(IF n - m.length + 1 > 0
                             THEN n - m.length + 1 ELSE 0) |->
                      window_score(m, seq, i - 1, 1)]
    IN  IF m.alphabet # unambiguous_dna THEN Raise("ValueError")
        ELSE IF Len(scores) = 1
             THEN Return([shape |-> "scalar", items |-> scores])
        ELSE Return([shape |-> "list", items |-> scores])

\* The mean that leaves out the factor 2**logodds: the plain sum of
\* b * logodds.
mean_unweighted(m) ==
    LET b == <<1, Len(m.alphabet)>>
        cell(let, i) ==
            LET lo == m.vals[let][i]
            IN  IF lo.k = "-inf" THEN Zero
                ELSE RMul(b, <<lo.n, lo.d>>)
    IN  RSum([i \in 1..m.length |->
                RSum([j \in DOMAIN m.alphabet |-> cell(m.alphabet[j], i)])])

\* pssm.mean() with no background given: Biopython weighs every letter by
\* the uniform 1/K, skips -inf cells and sums b * 2**logodds * logodds.
mean(m) ==
    LET b == <<1, Len(m.alphabet)>>
        cell(let, i) ==
            LET lo == m.vals[let][i]
            IN  IF lo.k = "-inf" THEN Zero
                ELSE RMul(RMul(b, Pow2(lo)), <<lo.n, lo.d>>)
    IN  RSum([i \in 1..m.length |->
                RSum([j \in DOMAIN m.alphabet |-> cell(m.alphabet[j], i)])])

\* pssm.max and pssm.min: the sum over the positions of the largest
\* (smallest) entry of the position.
RECURSIVE pssm_max_from(_, _)
pssm_max_from(m, i) ==
    IF i > m.length THEN Fin(Zero)
    ELSE LET col == {m.vals[let][i] : let \in Range(m.alphabet)}
             best == CHOOSE x \in col : \A y \in col : ~ScoreLt(x, y)
         IN  ScoreAdd(best, pssm_max_from(m, i + 1))

RECURSIVE pssm_min_from(_, _)
pssm_min_from(m, i) ==
    IF i > m.length THEN Fin(Zero)
    ELSE LET col == {m.vals[let][i] : let \in Range(m.alphabet)}
             best == CHOOSE x \in col : \A y \in col : ~ScoreLt(y, x)
         IN  ScoreAdd(best, pssm_min_from(m, i + 1))

pssm_max(m) == pssm_max_from(m, 1)
pssm_min(m) == pssm_min_from(m, 1)

---------------------------------------------------------------------------
(* Bio.motifs.thresholds.ScoreDistribution, as pssm.distribution(precision) *)
(* builds it: the background is not passed, so it is the uniform one.  The  *)
(* density array is kept sparse: a function on the indices with mass.       *)

precision == 1000

RFloor(q) == q[1] \div q[2]

\* _index_diff(x) = int((x - 0.0 + 0.5 * step) // step)
_index_diff(x, step) == RFloor(RAdd(RDiv(x, step), <<1, 2>>))

\* _add(i, j) = max(0, min(n_points - 1, i + j))
_add(i, j, n_points) ==
    IF i + j < 0 THEN 0 ELSE IF i + j > n_points - 1 THEN n_points - 1
    ELSE i + j

\* One position of the convolution: every letter moves the mass at index i
\* to _add(i, d) with d the index difference of the letter's score, scaled
\* by the letter's background probability bg[letter].
convolve(dens, m, bg, position, step, n_points) ==
    LET d(let) == LET lo == m.vals[let][position]
                  IN  _index_diff(<<lo.n, lo.d>>, step)
        moves == {<<i, let>> : i \in DOMAIN dens, let \in Range(m.alphabet)}
        target(mv) == _add(mv[1], d(mv[2]), n_points)
    IN  [t \in {target(mv) : mv \in moves} |->
           LET into == SetToSeq({mv \in moves : target(mv) = t})
           IN  RSum([k \in DOMAIN into |->
                       RMul(dens[into[k][1]], bg[into[k][2]])])]

RECURSIVE bg_density(_, _, _, _, _, _)
bg_density(dens, m, bg, position, step, n_points) ==
    IF position > m.length THEN dens
    ELSE bg_density(convolve(dens, m, bg, position, step, n_points),
                    m, bg, position + 1, step, n_points)

\* floor(sqrt(2) * 2^h) for h = 1..30, for comparing a square with an odd power of two.
Sqrt2Table ==
    <<2, 5, 11, 22, 45, 90, 181, 362, 724, 1448, 2896, 5792, 11585, 23170,
      46340, 92681, 185363, 370727, 741455, 1482910, 2965820, 5931641,
      11863283, 23726566, 47453132, 94906265, 189812531, 379625062,
      759250124, 1518500249>>

Cmp(a, b) == IF a < b THEN -1 ELSE IF a = b THEN 0 ELSE 1

\* The sign of n^b - 2^e for naturals n and b >= 1 and an integer e,
\* computed without leaving the integers TLC has.
PowCmp2(n, b, e) ==
    IF n = 0 THEN -1
    ELSE IF e < 0 THEN 1
    ELSE IF b % 2 = 1
         THEN IF e > 30 THEN -1 ELSE Cmp(Pow(n, b), Pow2Table[e])
    ELSE LET x == Pow(n, b \div 2)
             h == e \div 2
         IN  IF h > 30 THEN -1
             ELSE IF e % 2 = 0 THEN Cmp(x, Pow2Table[h])
             ELSE IF h = 0 THEN (IF x <= 1 THEN -1 ELSE 1)
             ELSE IF x <= Sqrt2Table[h] THEN -1 ELSE 1

\* The sign of prob - 2 ** -ic, for a probability whose denominator is a
\* power of two and a rational ic.
cmp_fpr(prob, ic) ==
    PowCmp2(prob[1], ic[2], ILog2(prob[2]) * ic[2] - ic[1])

\* prob < fpr with fpr = 2 ** -ic
less_than_fpr(prob, ic) == cmp_fpr(prob, ic) < 0

\* threshold_fpr(fpr): i = n_points; while prob < fpr: i -= 1;
\* prob += bg_density[i]; return min_score + i * step.  The indices to
\* visit are those with mass, from the top; below index 0 Python indexes
\* from the end of the list again, and below -n_points it raises IndexError.
RECURSIVE scan(_, _, _, _, _)
scan(idxs, prob, dens, ic, n_points) ==
    IF idxs = <<>> THEN Raise("IndexError")
    ELSE LET i == idxs[1]
             p == RAdd(prob, dens[IF i < 0 THEN i + n_points ELSE i])
         IN  IF less_than_fpr(p, ic)
             THEN scan(Tail(idxs), p, dens, ic, n_points)
             ELSE Return(i)

RECURSIVE descending(_)
descending(S) ==
    IF S = {} THEN <<>>
    ELSE LET x == CHOOSE y \in S : \A z \in S : z <= y
         IN  <<x>> \o descending(S \ {x})

\* ScoreDistribution(pssm=m, background=bg, precision): the grid and the
\* background density.  With a -inf cell the first _index_diff is int(nan)
\* (ValueError); with a flat matrix the step is 0.0 and the floor division
\* by it raises ZeroDivisionError.
ScoreDistribution(m, bg) ==
    LET lo == pssm_min(m)
        hi == pssm_max(m)
        min_score == IF ScoreLt(lo, Fin(Zero)) THEN lo ELSE Fin(Zero)
        max_score == IF ScoreLt(Fin(Zero), hi) THEN hi ELSE Fin(Zero)
        interval == RSub(<<max_score.n, max_score.d>>,
                         <<min_score.n, min_score.d>>)
        n_points == precision * m.length
        step == RDiv(interval, <<n_points - 1, 1>>)
        start == -_index_diff(<<min_score.n, min_score.d>>, step)
    IN  IF min_score.k = "-inf" THEN Raise("ValueError")
        ELSE IF interval = Zero THEN Raise("ZeroDivisionError")
        ELSE Return([min_score |-> <<min_score.n, min_score.d>>,
                     interval |-> interval,
                     n_points |-> n_points,
                     ic |-> mean(m),
                     step |-> step,
                     bg_density |-> bg_density([i \in {start} |-> One], m, bg,
                                               1, step, n_points)])

\* pssm.distribution(precision=10**3): no background is passed, so Biopython
\* takes the uniform one.
distribution_with(m, bg) == ScoreDistribution(m, normalize(bg, m.alphabet))

distribution(m) ==
    ScoreDistribution(m, [let \in Range(m.alphabet) |->
                            <<1, Len(m.alphabet)>>])

\* dist.threshold_patser() = dist.threshold_fpr(fpr=2 ** -dist.ic)
threshold_patser(dist) ==
    LET down == descending(DOMAIN dist.bg_density)
        i == scan(down \o [k \in DOMAIN down |-> down[k] - dist.n_points],
                  Zero, dist.bg_density, dist.ic, dist.n_points)
    IN  IF i.kind = "raise" THEN i
        ELSE Return(Fin(RAdd(dist.min_score,
                             RMul(<<i.value[1], 1>>, dist.step))))

---------------------------------------------------------------------------
(* PSSMModel.score_seq *)

\* log2(2**score + 2**rc_score)
soft_max(score, rc_score) == log2(RAdd(Pow2(score), Pow2(rc_score)))

\* The body of score_seq once self.pssm and self.reverse_complement_pssm
\* are at hand.  A returned value is [shape, items]: shape "list" for a
\* list of scores, "scalar" for a bare score.
score_seq(pssm, rc_pssm, seq, both) ==
    LET c == calculate(pssm, seq)
        rc == calculate(rc_pssm, seq)
        wrap(x) == IF pssm.length = Len(seq) /\ x.shape = "scalar"
                   THEN [shape |-> "list", items |-> x.items]
                   ELSE IF pssm.length = Len(seq)
                   THEN [shape |-> "nested", items |-> x.items]
                   ELSE x
        scores == wrap(c.value[1])
        rc_scores == wrap(rc.value[1])
        paired == [i \in DOMAIN scores.items |->
                      soft_max(scores.items[i], rc_scores.items[i])]
    IN  IF c.kind = "raise" THEN c
        ELSE IF rc.kind = "raise" THEN rc
        ELSE IF ~both THEN Return(scores)
        ELSE IF scores.shape # "list" \/ rc_scores.shape # "list"
             THEN Raise("TypeError")
        ELSE IF \E i \in DOMAIN paired : paired[i].kind = "raise"
             THEN Raise("ValueError")
        ELSE Return([shape |-> "list",
                     items |-> [i \in DOMAIN paired |-> paired[i].value[1]]])

---------------------------------------------------------------------------
(* The memoised fields of a model (cached_property): <<>> until the first  *)
(* access stores <<value>>.                                                *)

EmptyCache ==
    [pssm |-> <<>>, reverse_complement_pssm |-> <<>>, IC |-> <<>>,
     patser_threshold |-> <<>>]

NoCall == [op |-> "", seq |-> <<>>, both |-> FALSE, threshold_type |-> ""]

\* The memoised fields, and the threads that may read them.  A thread is
\* [stack, local, left]: the fields whose functions it is inside of
\* (innermost last), the self.pssm it has read inside such a function
\* (<<>> before), and the accesses it has left to make.
Fields == {"pssm", "reverse_complement_pssm", "IC", "patser_threshold"}

Threads == 1..NumThreads

IdleThread == [stack |-> <<>>, local |-> <<>>, left |-> MaxAccesses]

---------------------------------------------------------------------------
(* The state machine. *)

\* The arguments of PSSMModel(collections, weights, background): one or two
\* source matrices, the first over the DNA alphabet, one weight per matrix.
Init ==
    /\ pwms \in { ps \in UNION {[1..n -> SourcePwms] : n \in 1..2} :
                    ps[1].alphabet = unambiguous_dna }
    /\ weights \in [DOMAIN pwms -> 0..MaxWeight]
    /\ background \in Backgrounds
    /\ _pwm = <<>>
    /\ cache = EmptyCache
    /\ pc = "new"
    /\ call = NoCall
    /\ result = NoResult
    /\ threads = [t \in Threads |-> IdleThread]
    /\ runs = [f \in Fields |-> 0]

\* __init__: self._pwm = self._combine_pwms([c.pwm for c in collections],
\* weights); an exception leaves no model.
Construct ==
    /\ pc = "new"
    /\ LET r == _combine_pwms(pwms, weights)
       IN  /\ result' = r
           /\ _pwm' = r.value
           /\ pc' = IF r.kind = "return" THEN "returned" ELSE "failed"
    /\ call' = [NoCall EXCEPT !.op = "__init__"]
    /\ UNCHANGED <<pwms, weights, background, cache, threads, runs>>

\* The models this arithmetic can score (see LogExact).
Scorable == LogExact(_pwm[1], background)

\* cached_property pssm: self._pwm.log_odds(self.background) on the first
\* access, the stored matrix afterwards.
pssm(c) == IF c.pssm # <<>> THEN c.pssm[1] ELSE log_odds(_pwm[1], background)

\* cached_property reverse_complement_pssm: self.pssm.reverse_complement().
reverse_complement_pssm(c) ==
    IF c.reverse_complement_pssm # <<>> THEN c.reverse_complement_pssm[1]
    ELSE reverse_complement(pssm(c))

\* cached_property IC: self.pssm.mean().
IC(c) == IF c.IC # <<>> THEN c.IC[1] ELSE Fin(mean(pssm(c)))

\* cached_property patser_threshold: the outcome of
\* self.pssm.distribution(precision=10**3).threshold_patser().
patser_threshold(c) ==
    IF c.patser_threshold # <<>> THEN Return(c.patser_threshold[1])
    ELSE LET dist == distribution(pssm(c))
         IN  IF dist.kind = "raise" THEN dist
             ELSE threshold_patser(dist.value[1])

\* The faulty variant that computes the patser threshold for every
\* threshold_type.
threshold_any_type(c, threshold_type) ==
    LET thr == patser_threshold(c)
    IN  [result |-> thr,
         cache |-> [c EXCEPT !.pssm = <<pssm(c)>>,
                             !.patser_threshold = thr.value]]

\* The faulty variant that stores the threshold in the IC field.
threshold_stored_as_IC(c, threshold_type) ==
    IF threshold_type = "patser"
    THEN LET thr == patser_threshold(c)
         IN  [result |-> thr,
              cache |-> [c EXCEPT !.pssm = <<pssm(c)>>,
                                  !.IC = thr.value]]
    ELSE [result |-> Raise("ValueError"), cache |-> c]

\* threshold(threshold_type): the outcome and the cache it leaves.  A
\* value is memoised only when its computation returns.
threshold(c, threshold_type) ==
    IF threshold_type = "patser"
    THEN LET thr == patser_threshold(c)
         IN  [result |-> thr,
              cache |-> [c EXCEPT !.pssm = <<pssm(c)>>,
                                  !.patser_threshold = thr.value]]
    ELSE [result |-> Raise("ValueError"), cache |-> c]

\* Query sequences: strings over the DNA letters.
Queries == UNION {[1..n -> Range(unambiguous_dna)] : n \in 0..MaxSeqLen}

ThresholdTypes == {"patser", "fpr", "balanced"}

\* model.score_seq(seq, both)
ScoreSeq(seq, both) ==
    /\ pc = "ready"
    /\ Scorable
    /\ result' = score_seq(pssm(cache), reverse_complement_pssm(cache),
                           seq, both)
    /\ cache' = [cache EXCEPT
                   !.pssm = <<pssm(cache)>>,
                   !.reverse_complement_pssm =
                       <<reverse_complement_pssm(cache)>>]
    /\ call' = [op |-> "score_seq", seq |-> seq, both |-> both,
                threshold_type |-> ""]
    /\ pc' = "returned"
    /\ UNCHANGED <<pwms, weights, background, _pwm, threads, runs>>

\* model.IC
GetIC ==
    /\ pc = "ready"
    /\ Scorable
    /\ result' = Return(IC(cache))
    /\ cache' = [cache EXCEPT !.pssm = <<pssm(cache)>>, !.IC = <<IC(cache)>>]
    /\ call' = [NoCall EXCEPT !.op = "IC"]
    /\ pc' = "returned"
    /\ UNCHANGED <<pwms, weights, background, _pwm, threads, runs>>

\* model.threshold(threshold_type)
Threshold(threshold_type) ==
    /\ pc = "ready"
    /\ Scorable
    /\ LET r == threshold(cache, threshold_type)
       IN  /\ result' = r.result
           /\ cache' = r.cache
    /\ call' = [NoCall EXCEPT !.op = "threshold",
                              !.threshold_type = threshold_type]
    /\ pc' = "returned"
    /\ UNCHANGED <<pwms, weights, background, _pwm, threads, runs>>

\* The caller takes the outcome of the call, whose arguments go out of
\* scope (those of the constructor too: the model keeps only _pwm and the
\* background); the model is ready for the next call.
Resume ==
    /\ pc = "returned"
    /\ pc' = "ready"
    /\ call' = NoCall
    /\ result' = NoResult
    /\ pwms' = <<>>
    /\ weights' = <<>>
    /\ UNCHANGED <<background, _pwm, cache, threads, runs>>

Next ==
    \/ Construct
    \/ \E seq \in Queries, both \in BOOLEAN : ScoreSeq(seq, both)
    \/ GetIC
    \/ \E threshold_type \in ThresholdTypes : Threshold(threshold_type)
    \/ Resume

Spec == Init /\ [][Next]_vars

---------------------------------------------------------------------------
(* Threads sharing one model.  cached_property (imported on line 1, the    *)
(* plain decorator, not threaded_cached_property) holds no lock: reading a *)
(* field finds the value in the instance's __dict__, or else runs          *)
(*     value = obj.__dict__[self.func.__name__] = self.func(obj)           *)
(* and another thread may run between the failed lookup and the store.     *)

\* The models a single-threaded construction leaves: the combined matrices
\* that _combine_pwms returns for the arguments of Init.
BuiltPwms ==
    LET args == { ps \in UNION {[1..n -> SourcePwms] : n \in 1..2} :
                    ps[1].alphabet = unambiguous_dna }
        outcomes == UNION {{_combine_pwms(ps, ws) :
                              ws \in [DOMAIN ps -> 0..MaxWeight]} :
                           ps \in args}
    IN  {r.value : r \in {o \in outcomes : o.kind = "return"}}

ThreadInit ==
    /\ _pwm \in BuiltPwms
    /\ background \in Backgrounds
    /\ Scorable
    /\ pwms = <<>>
    /\ weights = <<>>
    /\ cache = EmptyCache
    /\ pc = "ready"
    /\ call = NoCall
    /\ result = NoResult
    /\ threads = [t \in Threads |-> IdleThread]
    /\ runs = [f \in Fields |-> 0]

\* self.func(obj) of the field f, for a thread that has read self.pssm as
\* local (the pssm function itself reads only _pwm and the background).
func(f, local) ==
    LET c == [EmptyCache EXCEPT !.pssm = local]
    IN  CASE f = "pssm" -> Return(pssm(EmptyCache))
          [] f = "reverse_complement_pssm" ->
                 Return(reverse_complement_pssm(c))
          [] f = "IC" -> Return(IC(c))
          [] f = "patser_threshold" -> patser_threshold(c)

\* A thread reads the field f and finds it in the instance's __dict__.
AccessHit(t, f) ==
    /\ threads[t].stack = <<>>
    /\ threads[t].left > 0
    /\ cache[f] # <<>>
    /\ threads' = [threads EXCEPT ![t].left = @ - 1]
    /\ UNCHANGED <<pwms, weights, background, _pwm, cache, pc, call, result,
                   runs>>

\* A thread reads the field f, does not find it and enters its function.
AccessMiss(t, f) ==
    /\ threads[t].stack = <<>>
    /\ threads[t].left > 0
    /\ cache[f] = <<>>
    /\ threads' = [threads EXCEPT ![t].left = @ - 1, ![t].stack = <<f>>]
    /\ runs' = [runs EXCEPT ![f] = @ + 1]
    /\ UNCHANGED <<pwms, weights, background, _pwm, cache, pc, call, result>>

\* Inside the function of another field the thread reads self.pssm and
\* finds it in the __dict__.
ReadPssmHit(t) ==
    /\ Len(threads[t].stack) = 1
    /\ threads[t].stack[1] # "pssm"
    /\ threads[t].local = <<>>
    /\ cache.pssm # <<>>
    /\ threads' = [threads EXCEPT ![t].local = cache.pssm]
    /\ UNCHANGED <<pwms, weights, background, _pwm, cache, pc, call, result,
                   runs>>

\* Inside the function of another field the thread reads self.pssm, does
\* not find it and enters the pssm function.
ReadPssmMiss(t) ==
    /\ Len(threads[t].stack) = 1
    /\ threads[t].stack[1] # "pssm"
    /\ threads[t].local = <<>>
    /\ cache.pssm = <<>>
    /\ threads' = [threads EXCEPT ![t].stack = Append(@, "pssm")]
    /\ runs' = [runs EXCEPT !.pssm = @ + 1]
    /\ UNCHANGED <<pwms, weights, background, _pwm, cache, pc, call, result>>

\* The innermost function of the thread ends: its value is stored in the
\* __dict__ and handed to the reader; an exception stores nothing and ends
\* the access.
Fill(t) ==
    LET stack == threads[t].stack
        f == stack[Len(stack)]
        r == func(f, threads[t].local)
        rest == SubSeq(stack, 1, Len(stack) - 1)
    IN  /\ stack # <<>>
        /\ f = "pssm" \/ threads[t].local # <<>>
        /\ cache' = IF r.kind = "return" THEN [cache EXCEPT ![f] = r.value]
                    ELSE cache
        /\ runs' = IF r.kind = "return" THEN runs
                   ELSE [runs EXCEPT ![f] = @ - 1]
        /\ threads' = [threads EXCEPT
                         ![t].stack = rest,
                         ![t].local = IF rest # <<>> THEN r.value ELSE <<>>]
        /\ UNCHANGED <<pwms, weights, background, _pwm, pc, call, result>>

ThreadNext ==
    \/ \E t \in Threads, f \in Fields : AccessHit(t, f)
    \/ \E t \in Threads, f \in Fields : AccessMiss(t, f)
    \/ \E t \in Threads : ReadPssmHit(t)
    \/ \E t \in Threads : ReadPssmMiss(t)
    \/ \E t \in Threads : Fill(t)

ThreadSpec == ThreadInit /\ [][ThreadNext]_vars

---------------------------------------------------------------------------
(* Claims about _combine_pwms. *)

TotalWeight == RSum([k \in DOMAIN weights |-> <<weights[k], 1>>])

\* The precondition of the combination claims: the source matrices agree in
\* length and alphabet, no weight is negative and the total weight is > 0.
ValidCombination ==
    /\ \A k \in DOMAIN pwms :
          /\ pwms[k].length = pwms[1].length
          /\ pwms[k].alphabet = pwms[1].alphabet
    /\ \A k \in DOMAIN weights : weights[k] >= 0
    /\ RLt(Zero, TotalWeight)

RowSum(m, i) == RSum([j \in DOMAIN m.alphabet |-> m.vals[m.alphabet[j]][i]])

\* C1: for source matrices of equal length and alphabet whose rows sum to 1
\* and a valid weight vector, _combine_pwms returns a matrix and every row
\* (position) of it sums to 1.
C1_RowsSumToOne ==
    (call.op = "__init__" /\ ValidCombination) =>
        /\ _pwm # <<>>
        /\ \A i \in 1.._pwm[1].length : RowSum(_pwm[1], i) = One

\* C1 witness: two different matrices combined under weights [2, 1].
C1_Witness ==
    /\ call.op = "__init__" /\ pc = "returned"
    /\ Len(pwms) = 2 /\ pwms[1] # pwms[2]
    /\ weights = <<2, 1>>
    /\ \A i \in 1.._pwm[1].length : RowSum(_pwm[1], i) = One

\* C2: every entry of the combined matrix, times the total weight, is the
\* weighted sum of the source entries: entry[p][s] = sum_k (w_k / W) *
\* matrix_k[p][s].
C2_WeightedAverage ==
    (call.op = "__init__" /\ ValidCombination) =>
        /\ _pwm # <<>>
        /\ \A let \in Range(pwms[1].alphabet) : \A i \in 1..pwms[1].length :
              RMul(_pwm[1].vals[let][i], TotalWeight)
                = RSum([k \in DOMAIN pwms |->
                          RMul(<<weights[k], 1>>, pwms[k].vals[let][i])])

\* C2 witness: weights [2, 1] on two different matrices give (2*w1 + w2)/3
\* at position 0.
C2_Witness ==
    /\ call.op = "__init__" /\ pc = "returned"
    /\ Len(pwms) = 2 /\ pwms[1] # pwms[2]
    /\ weights = <<2, 1>>
    /\ \A let \in Range(pwms[1].alphabet) :
          _pwm[1].vals[let][1]
            = RDiv(RAdd(RMul(<<2, 1>>, pwms[1].vals[let][1]),
                        pwms[2].vals[let][1]), <<3, 1>>)

\* C3: when some matrix differs from the first in length or in alphabet the
\* combination fails with the assertion error and no matrix is produced.
C3_ShapeMismatchFails ==
    (call.op = "__init__" /\ \E k \in DOMAIN pwms :
                      \/ pwms[k].length # pwms[1].length
                      \/ pwms[k].alphabet # pwms[1].alphabet) =>
        /\ pc = "failed"
        /\ result = Raise("AssertionError")
        /\ _pwm = <<>>

\* C3 witness: a failed combination of a shorter with a longer matrix, and
\* one of a DNA with an RNA matrix.
C3_Witness ==
    /\ pc = "failed"
    /\ result = Raise("AssertionError")
    /\ Len(pwms) = 2
    /\ \/ pwms[1].length < pwms[2].length
       \/ pwms[1].alphabet # pwms[2].alphabet

---------------------------------------------------------------------------
(* The quantities the scoring claims speak of, computed from the combined  *)
(* matrix and the background of the model.                                 *)

ModelLength == _pwm[1].length

\* log2 of a power of two.
Lg2(q) == IF q[2] = 1 THEN ILog2(q[1]) ELSE -ILog2(q[2])

\* The log-odds log2(pwm[p][s] / background[s]) of a cell, -inf for a cell
\* of frequency zero.
LogOdds(let, i) ==
    IF _pwm[1].vals[let][i] = Zero THEN NegInf
    ELSE Fin(<<Lg2(RDiv(_pwm[1].vals[let][i], background[let])), 1>>)

RECURSIVE IntSum(_)
IntSum(xs) == IF xs = <<>> THEN 0 ELSE xs[1] + IntSum(Tail(xs))

\* The score of a window of ModelLength letters on the forward strand.
ForwardScore(w) ==
    IF \E j \in DOMAIN w : LogOdds(w[j], j).k = "-inf" THEN NegInf
    ELSE Fin(<<IntSum([j \in DOMAIN w |-> LogOdds(w[j], j).n]), 1>>)

\* The score of the same window read on the other strand: the forward score
\* of its reverse complement.
ReverseScore(w) ==
    ForwardScore([j \in DOMAIN w |-> complement(w[Len(w) + 1 - j])])

Window(seq, i) == SubSeq(seq, i, i + ModelLength - 1)

\* The number 2^v of a score v, and the order of scores through it.
OddsOf(v) == IF v.k = "-inf" THEN Zero
             ELSE IF v.k = "log2" THEN <<v.n, v.d>>
             ELSE Pow2(v)

ScoreLe(x, y) == RLe(OddsOf(x), OddsOf(y))

MaxScore(x, y) == IF ScoreLe(x, y) THEN y ELSE x

\* log2(2^f + 2^r) as a real number, -inf when both scores are -inf.
LogSumExp2(f, r) ==
    IF f.k = "-inf" /\ r.k = "-inf" THEN NegInf
    ELSE log2(RAdd(OddsOf(f), OddsOf(r))).value[1]

Items == result.value[1].items

---------------------------------------------------------------------------
(* Claims about score_seq. *)

\* C4: for a query of length n >= L, score_seq (both or not) returns a
\* list of exactly n - L + 1 scores, a one-element list when n = L and
\* never a bare scalar.
C4_ScoreCount ==
    (call.op = "score_seq" /\ Len(call.seq) >= ModelLength) =>
        /\ result.kind = "return"
        /\ result.value[1].shape = "list"
        /\ Len(Items) = Len(call.seq) - ModelLength + 1

\* C5: for a query shorter than the matrix (n < L) score_seq fails; it
\* returns no result.
C5_TooShortFails ==
    (call.op = "score_seq" /\ Len(call.seq) < ModelLength) =>
        result.kind = "raise"

\* C6: at every offset i score_seq returns log2(2^forward + 2^reverse) of
\* the two strand scores of the window at i when both is set, and the
\* forward score of that window when it is not.
C6_StrandCombination ==
    (call.op = "score_seq") =>
        /\ result.kind = "return"
        /\ \A i \in DOMAIN Items :
              Items[i] = IF call.both
                         THEN LogSumExp2(ForwardScore(Window(call.seq, i)),
                                         ReverseScore(Window(call.seq, i)))
                         ELSE ForwardScore(Window(call.seq, i))

\* C7: for every pair (f, r) of strand scores the matrices produce, -inf
\* from a zero-frequency cell included, the call does not fail and the
\* combined score lies between max(f, r) and max(f, r) + 1.
C7_StrandBound ==
    (call.op = "score_seq" /\ call.both) =>
        /\ result.kind = "return"
        /\ \A i \in DOMAIN Items :
              LET m == MaxScore(ForwardScore(Window(call.seq, i)),
                                ReverseScore(Window(call.seq, i)))
              IN  /\ ScoreLe(m, Items[i])
                  /\ ScoreLe(Items[i], ScoreAdd(m, Fin(One)))

---------------------------------------------------------------------------
(* Claims about the information content. *)

Cells == {<<let, i>> : let \in Range(_pwm[1].alphabet), i \in 1..ModelLength}

\* sum_p sum_s background[s] * pssm[p][s]: the expected score under the
\* background (-inf as soon as one cell is -inf).
ExpectationUnderBackground ==
    IF \E c \in Cells : LogOdds(c[1], c[2]).k = "-inf" THEN NegInf
    ELSE LET cs == SetToSeq(Cells)
         IN  Fin(RSum([k \in DOMAIN cs |->
                         RMul(background[cs[k][1]],
                              <<LogOdds(cs[k][1], cs[k][2]).n, 1>>)]))

\* sum over the cells of non-zero frequency of
\* (1/K) * (pwm[p][s] / background[s]) * log2(pwm[p][s] / background[s]).
UniformWeightedMean ==
    LET cs == SetToSeq({c \in Cells : _pwm[1].vals[c[1]][c[2]] # Zero})
    IN  Fin(RSum([k \in DOMAIN cs |->
                    RMul(RMul(<<1, Len(_pwm[1].alphabet)>>,
                              RDiv(_pwm[1].vals[cs[k][1]][cs[k][2]],
                                   background[cs[k][1]])),
                         <<LogOdds(cs[k][1], cs[k][2]).n, 1>>)]))

---------------------------------------------------------------------------
(* Claims about the threshold. *)

\* The score distribution on the grid of the model's distribution, induced
\* by the model's own background; defined when the matrix has no -inf cell
\* and is not flat.
ModelDistribution == distribution_with(log_odds(_pwm[1], background), background)

TailOf(dist, j) ==
    LET above == SetToSeq({i \in DOMAIN dist.bg_density : i >= j})
    IN  RSum([k \in DOMAIN above |-> dist.bg_density[above[k]]])

\* The grid indices j with -log2(P(score >= score_j)) >= IC, that is with
\* tail(j) <= 2^-IC.  The tail is constant between indices with mass, so
\* the smallest such index is 0 or the index after one with mass.
AttainingIndices(dist) ==
    {j \in {0} \cup {i + 1 : i \in DOMAIN dist.bg_density} :
        /\ j <= dist.n_points - 1
        /\ cmp_fpr(TailOf(dist, j), dist.ic) <= 0}

GridScore(dist, j) == Fin(RAdd(dist.min_score, RMul(<<j, 1>>, dist.step)))

\* C9: threshold('patser') returns the smallest score t* of the discretized
\* distribution induced by the model's background with
\* -log2(P(score >= t*)) >= IC, and fails when no score of the grid
\* attains it.
C9_PatserThreshold ==
    (call.op = "threshold" /\ call.threshold_type = "patser"
       /\ ModelDistribution.kind = "return") =>
        LET dist == ModelDistribution.value[1]
            js == AttainingIndices(dist)
        IN  IF js = {} THEN result.kind = "raise"
            ELSE result = Return(GridScore(dist,
                                           CHOOSE j \in js :
                                               \A k \in js : j <= k))

\* C10: threshold(threshold_type) with a method name other than 'patser'
\* raises ValueError and leaves the memoised fields as they were; with
\* 'patser' its outcome is that of the patser_threshold field.
C10_ThresholdDispatch ==
    [][(pc = "ready" /\ call'.op = "threshold") =>
          IF call'.threshold_type = "patser"
          THEN result' =
                 IF cache.patser_threshold # <<>>
                 THEN Return(cache.patser_threshold[1])
                 ELSE LET dist == distribution(log_odds(_pwm[1], background))
                      IN  IF dist.kind = "raise" THEN dist
                          ELSE threshold_patser(dist.value[1])
          ELSE /\ result' = Raise("ValueError")
               /\ cache' = cache]_vars

\* C10 witness: an unsupported method name raised on a model that had its
\* scoring matrix memoised, and no threshold was stored.
C10_Witness ==
    /\ call.op = "threshold"
    /\ call.threshold_type = "fpr"
    /\ result = Raise("ValueError")
    /\ cache.pssm # <<>>
    /\ cache.patser_threshold = <<>>

---------------------------------------------------------------------------
(* Claim about weights that sum to zero. *)

SameShape ==
    \A k \in DOMAIN pwms :
       /\ pwms[k].length = pwms[1].length
       /\ pwms[k].alphabet = pwms[1].alphabet

\* C11: when the weights sum to zero the combination fails and produces no
\* combined matrix; for matrices of one shape, which pass the assertions,
\* the failure is the ZeroDivisionError of the weight normalisation.
C11_ZeroTotalWeightFails ==
    (call.op = "__init__" /\ TotalWeight = Zero) =>
        /\ pc = "failed"
        /\ result.kind = "raise"
        /\ _pwm = <<>>
        /\ SameShape => result = Raise("ZeroDivisionError")

\* C11 witness: two matrices of one shape under the weights [0, 0], and the
\* construction failed on the division.
C11_Witness ==
    /\ call.op = "__init__"
    /\ Len(pwms) = 2 /\ SameShape
    /\ weights = <<0, 0>>
    /\ pc = "failed"
    /\ result = Raise("ZeroDivisionError")
    /\ _pwm = <<>>

---------------------------------------------------------------------------
(* Claim about threads that share a model. *)

\* C12: whatever the interleaving of the threads, the computation of each
\* memoised field runs at most once per model: runs[f], the computations
\* of f begun that did not end in an exception, never exceeds 1.
C12_ComputedAtMostOnce == \A f \in Fields : runs[f] <= 1

---------------------------------------------------------------------------
(* Claim about the model across a sequence of calls. *)

\* The outcome of a call on a model with nothing memoised: a function of
\* the combined matrix, the background and the arguments alone.
FreshOutcome(c) ==
    CASE c.op = "score_seq" ->
           score_seq(pssm(EmptyCache), reverse_complement_pssm(EmptyCache),
                     c.seq, c.both)
      [] c.op = "IC" -> Return(IC(EmptyCache))
      [] c.op = "threshold" -> threshold(EmptyCache, c.threshold_type).result
      [] OTHER -> NoResult

\* C13: in every step of a constructed model, failing calls included, the
\* combined matrix and the background stay as they are and a memoised
\* field keeps its value; and the outcome of every call is the one a model
\* with nothing memoised gives for the same arguments, so repeated calls
\* with the same input have identical outcomes.
C13_ImmutableAndDeterministic ==
    [][_pwm # <<>> =>
          /\ _pwm' = _pwm
          /\ background' = background
          /\ \A f \in Fields : cache[f] # <<>> => cache'[f] = cache[f]
          /\ pc = "ready" => result' = FreshOutcome(call')]_vars

\* C13 witness: a score_seq call that failed on a model whose scoring
\* matrices and information content were memoised by earlier calls.
C13_Witness ==
    /\ call.op = "score_seq"
    /\ result.kind = "raise"
    /\ cache.pssm # <<>>
    /\ cache.reverse_complement_pssm # <<>>
    /\ cache.IC # <<>>
    /\ cache.pssm = <<log_odds(_pwm[1], background)>>

=============================================================================
